---- MODULE Spec2Model ----
(***************************************************************************)
(* A model of the AWM crawler (src/awm_scraper.py): the scheduler loop of  *)
(* AWMScraper.scrape_website, the scrape_page workers it submits to a      *)
(* thread pool, the shared frontier (visited_urls, to_visit) guarded by    *)
(* self.lock, and the files written by save_data.                          *)
(*                                                                         *)
(* A URL is a record [netloc, path]; path is the sequence of tokens that   *)
(* follow the authority in the URL string, so that str.endswith can be     *)
(* computed on the string's tail.                                          *)
(***************************************************************************)
EXTENDS Integers, Sequences, FiniteSets, TLC

\* ------------------------------------------------------------- bounds ----
\* max_workers of AWMScraper.__init__ (a constructor argument).
MaxWorkers == 2

\* The "every 50 pages" of scrape_website, scaled to the size of the
\* modelled site so that the crawl crosses it.
CheckpointInterval == 2

\* --------------------------------------------------------------- URLs ----
AwmNetloc == "www.awm.gov.au"

Url(n, p) == [netloc |-> n, path |-> p]

Home   == Url(AwmNetloc, <<>>)
PageA  == Url(AwmNetloc, <<"/a">>)
PageB  == Url(AwmNetloc, <<"/b">>)
PageC  == Url(AwmNetloc, <<"/c">>)
DocPdf == Url(AwmNetloc, <<"/doc", ".pdf">>)
ExtX   == Url("external.test", <<"/x">>)

\* Every absolute URL an anchor of a served page can resolve to.
AllUrls == {Home, PageA, PageB, PageC, DocPdf, ExtX}

\* The base_url values the scraper is constructed with: the default one and
\* one that is_valid_url does not accept.
BaseUrls == {Home, ExtX}

\* What the anchors of the pages served in a crawl from seed can resolve to:
\* every URL for the default seed, a few for the other one.
SiteUrls(seed) == IF seed = Home THEN AllUrls ELSE {ExtX, PageA, DocPdf}

\* The URL as the string Python sees, token by token.
UrlString(u) == <<"https://", u.netloc>> \o u.path

\* str.endswith(suffix) for one suffix.
EndsWith(s, suffix) ==
    /\ Len(s) >= Len(suffix)
    /\ SubSeq(s, Len(s) - Len(suffix) + 1, Len(s)) = suffix

ExcludedSuffixes ==
    { <<".pdf">>, <<".jpg">>, <<".jpeg">>, <<".png">>, <<".gif">>,
      <<".zip">>, <<".doc">>, <<".docx">> }

\* urlparse(url).netloc
ParsedNetloc(u) == u.netloc

is_valid_url(u) ==
    /\ ParsedNetloc(u) = AwmNetloc
    /\ ~ \E suf \in ExcludedSuffixes : EndsWith(UrlString(u), suf)

\* A variant of extract_links that keeps every anchor.
extract_links_unfiltered(hrefs) == hrefs

\* extract_links: hrefs are the anchors of the page, already resolved by
\* urljoin against the page's URL.
extract_links(hrefs) == { h \in hrefs : is_valid_url(h) }

\* -------------------------------------------------------------- state ----
VARIABLES
    base_url,       \* self.base_url
    visited_urls,   \* self.visited_urls
    to_visit,       \* self.to_visit (deque, left = head)
    offered_by,     \* for each entry of to_visit, the URL of the page whose
                    \* scrape_page call appended it (a record of the run)
    scraped_data,   \* self.scraped_data
    lock,           \* self.lock: 0 when free, else the task holding it
    sched_pc,       \* position of scrape_website
    batch,          \* the local list batch
    batch_size,     \* the local batch_size
    tasks,          \* future_to_url: the futures of the current batch
    files,          \* the files under output/
    save_calls,     \* every call of save_data so far, in order
    fetch_count     \* the number of session.get calls issued per URL

vars == << base_url, visited_urls, to_visit, offered_by, scraped_data, lock,
           sched_pc, batch, batch_size, tasks, files, save_calls, fetch_count >>

frontier == << visited_urls, to_visit, offered_by >>
sched_locals == << batch, batch_size >>
disk == << files, save_calls >>

None == << >>

\* The entry of offered_by for a URL that no page offered: the seed, which
\* scrape_website appends itself.
NoPage == [netloc |-> "", path |-> << >>]

Min(a, b) == IF a <= b THEN a ELSE b

\* page_data of scrape_page; title, content and metadata are functions of
\* the served bytes and play no part in the scheduling.
page_data(u) == [url |-> u]

BatchFile(n) == [kind |-> "batch", n |-> n]       \* awm_data_batch_{n}.json
CompleteFile == [kind |-> "complete", n |-> 0]    \* awm_complete_data.json
Filenames == {CompleteFile} \cup { BatchFile(n) : n \in 1 .. Cardinality(AllUrls) }

Absent == [state |-> "absent", data |-> << >>]

\* A file that holds the whole serialization of data.
Complete(data) == [state |-> "complete", data |-> data]

\* The records an earlier run of the program collected.
EarlierData == << page_data(Home), page_data(PageA), page_data(PageB),
                 page_data(PageC) >>

\* output/ as that earlier run left it: its checkpoints and its complete
\* dataset.
EarlierFiles ==
    [f \in Filenames |->
        IF f = CompleteFile
        THEN Complete(EarlierData)
        ELSE IF f.n % CheckpointInterval = 0 /\ f.n <= Len(EarlierData)
             THEN Complete(SubSeq(EarlierData, 1, f.n))
             ELSE Absent]

\* line 28, os.makedirs('output', exist_ok=True): the directory is created
\* empty or is kept with what it holds.
OutputDirs == { [f \in Filenames |-> Absent], EarlierFiles }

\* A future of line 159 with the state of its scrape_page call: passed
\* tells whether the call went through line 53, todo is what the for loop of
\* line 72 has still to iterate over and link is its loop variable (the
\* task's own URL while the loop is not running); raised tells that the call
\* ended with an exception, which the future holds in place of a result.
NewTask(u) ==
    [url |-> u, pc |-> "queued", passed |-> FALSE, todo |-> {}, link |-> u,
     result |-> None, raised |-> FALSE, collected |-> FALSE]

TaskIds == 1 .. Len(tasks)

\* Threads of the pool that are inside scrape_page.
Running == { t \in TaskIds : tasks[t].pc \notin {"queued", "done"} }

Init ==
    /\ base_url \in BaseUrls
    /\ visited_urls = {}
    /\ to_visit = << >>
    /\ offered_by = << >>
    /\ scraped_data = << >>
    /\ lock = 0
    /\ sched_pc = "start"
    /\ batch = << >>
    /\ batch_size = 0
    /\ tasks = << >>
    /\ files \in OutputDirs
    /\ save_calls = << >>
    /\ fetch_count = [u \in AllUrls |-> 0]

\* ---------------------------------------------------------- the lock ----
\* A variant that never waits for the lock.
LockAlwaysFree(l) == TRUE

\* threading.Lock: acquire blocks until the lock is free.
LockFree(l) == l = 0

\* -------------------------------------------- scrape_page (a worker) ----
\* A pool thread takes the queued call from the executor's work queue; the
\* pool has max_workers threads.
StartTask(t) ==
    /\ tasks[t].pc = "queued"
    /\ Cardinality(Running) < MaxWorkers
    /\ tasks' = [tasks EXCEPT ![t].pc = "acquire1"]
    /\ UNCHANGED << base_url, frontier, scraped_data, lock, sched_pc,
                    sched_locals, disk, fetch_count >>

\* line 50: with self.lock
AcquireVisitLock(t) ==
    /\ tasks[t].pc = "acquire1"
    /\ LockFree(lock)
    /\ lock' = t
    /\ tasks' = [tasks EXCEPT ![t].pc = "check"]
    /\ UNCHANGED << base_url, frontier, scraped_data, sched_pc,
                    sched_locals, disk, fetch_count >>

\* A variant without the visited check of line 51.
NeverVisited(u, visited) == FALSE

\* line 51: if url in self.visited_urls
AlreadyVisited(u, visited) == u \in visited

\* lines 51-52: the URL is visited already; the return statement leaves the
\* with block, which releases the lock. The call has not returned yet.
SkipVisited(t) ==
    /\ tasks[t].pc = "check"
    /\ AlreadyVisited(tasks[t].url, visited_urls)
    /\ tasks' = [tasks EXCEPT ![t].pc = "skipped"]
    /\ lock' = 0
    /\ UNCHANGED << base_url, frontier, scraped_data, sched_pc,
                    sched_locals, disk, fetch_count >>

\* line 52: scrape_page returns None and the pool thread completes the
\* future with it.
ReturnSkipped(t) ==
    /\ tasks[t].pc = "skipped"
    /\ tasks' = [tasks EXCEPT ![t].pc = "done", ![t].result = None]
    /\ UNCHANGED << base_url, frontier, scraped_data, lock, sched_pc,
                    sched_locals, disk, fetch_count >>

\* line 51, the other branch: go on to line 53.
PassVisitedCheck(t) ==
    /\ tasks[t].pc = "check"
    /\ ~ AlreadyVisited(tasks[t].url, visited_urls)
    /\ tasks' = [tasks EXCEPT ![t].pc = "mark"]
    /\ UNCHANGED << base_url, frontier, scraped_data, lock, sched_pc,
                    sched_locals, disk, fetch_count >>

\* line 53: self.visited_urls.add(url), then the with block ends.
MarkVisited(t) ==
    /\ tasks[t].pc = "mark"
    /\ visited_urls' = visited_urls \cup {tasks[t].url}
    /\ lock' = 0
    /\ tasks' = [tasks EXCEPT ![t].pc = "fetch", ![t].passed = TRUE]
    /\ UNCHANGED << base_url, to_visit, offered_by, scraped_data, sched_pc,
                    sched_locals, disk, fetch_count >>

\* The request counter is capped so that a model of a faulty variant stays
\* finite; the code as written never reaches the cap.
MaxFetchCount == 3

CountFetch(u) ==
    [fetch_count EXCEPT ![u] = Min(@ + 1, MaxFetchCount)]

\* lines 78-80, the handler of scrape_page: line 79 prints and line 80
\* returns None, or the print of line 79 raises (stdout cannot encode the
\* message or cannot be written) and the exception leaves scrape_page.
HandlerRaises == {FALSE, TRUE}

\* line 55: the print raises before session.get is called; no request is
\* issued and the handler runs.
AnnounceFail(t) ==
    /\ tasks[t].pc = "fetch"
    /\ \E r \in HandlerRaises :
         tasks' = [tasks EXCEPT ![t].pc = "done", ![t].result = None,
                                ![t].raised = r]
    /\ UNCHANGED << base_url, frontier, scraped_data, lock, sched_pc,
                    sched_locals, disk, fetch_count >>

\* lines 55-56: the print succeeds, session.get sends the request and waits
\* for the response; the other threads run meanwhile.
IssueRequest(t) ==
    /\ tasks[t].pc = "fetch"
    /\ fetch_count' = CountFetch(tasks[t].url)
    /\ tasks' = [tasks EXCEPT ![t].pc = "get"]
    /\ UNCHANGED << base_url, frontier, scraped_data, lock, sched_pc,
                    sched_locals, disk >>

\* lines 56-70: session.get returns, raise_for_status succeeds and the page
\* parses; its anchors resolve to hrefs.
FetchOk(t) ==
    /\ tasks[t].pc = "get"
    /\ \E hrefs \in SUBSET SiteUrls(base_url) :
         tasks' = [tasks EXCEPT ![t].pc = "acquire2",
                                ![t].todo = extract_links(hrefs)]
    /\ UNCHANGED << base_url, frontier, scraped_data, lock, sched_pc,
                    sched_locals, disk, fetch_count >>

\* line 56 or 57 raises (timeout, connection failure, HTTP status) or the
\* extraction of lines 59-70 does; the handler of lines 78-80 runs.
FetchFail(t) ==
    /\ tasks[t].pc = "get"
    /\ \E r \in HandlerRaises :
         tasks' = [tasks EXCEPT ![t].pc = "done", ![t].result = None,
                                ![t].raised = r]
    /\ UNCHANGED << base_url, frontier, scraped_data, lock, sched_pc,
                    sched_locals, disk, fetch_count >>

\* line 71: with self.lock
AcquireEnqueueLock(t) ==
    /\ tasks[t].pc = "acquire2"
    /\ LockFree(lock)
    /\ lock' = t
    /\ tasks' = [tasks EXCEPT ![t].pc = "enqueue"]
    /\ UNCHANGED << base_url, frontier, scraped_data, sched_pc,
                    sched_locals, disk, fetch_count >>

\* A variant without the visited check of line 73.
EnqueueAlways(link, visited) == TRUE

\* line 73: if link not in self.visited_urls
ShouldEnqueue(link, visited) == link \notin visited

\* lines 72-73: the for loop takes the next link (a set is iterated in no
\* particular order) and tests it.
TestLink(t) ==
    /\ tasks[t].pc = "enqueue"
    /\ \E link \in tasks[t].todo :
         tasks' = [tasks EXCEPT
                     ![t].todo = @ \ {link},
                     ![t].link = IF ShouldEnqueue(link, visited_urls)
                                 THEN link ELSE @,
                     ![t].pc = IF ShouldEnqueue(link, visited_urls)
                               THEN "append" ELSE "enqueue"]
    /\ UNCHANGED << base_url, frontier, scraped_data, lock, sched_pc,
                    sched_locals, disk, fetch_count >>

\* line 74: self.to_visit.append(link)
AppendLink(t) ==
    /\ tasks[t].pc = "append"
    /\ to_visit' = Append(to_visit, tasks[t].link)
    /\ offered_by' = Append(offered_by, tasks[t].url)
    /\ tasks' = [tasks EXCEPT ![t].pc = "enqueue", ![t].link = tasks[t].url]
    /\ UNCHANGED << base_url, visited_urls, scraped_data, lock, sched_pc,
                    sched_locals, disk, fetch_count >>

\* The loop of line 72 is over and the with block of line 71 ends: the lock
\* is released. The call has not returned yet.
EndEnqueue(t) ==
    /\ tasks[t].pc = "enqueue"
    /\ tasks[t].todo = {}
    /\ lock' = 0
    /\ tasks' = [tasks EXCEPT ![t].pc = "return"]
    /\ UNCHANGED << base_url, frontier, scraped_data, sched_pc,
                    sched_locals, disk, fetch_count >>

\* line 76: scrape_page returns page_data and the pool thread completes the
\* future with it.
ReturnPage(t) ==
    /\ tasks[t].pc = "return"
    /\ tasks' = [tasks EXCEPT ![t].pc = "done",
                              ![t].result = << page_data(tasks[t].url) >>]
    /\ UNCHANGED << base_url, frontier, scraped_data, lock, sched_pc,
                    sched_locals, disk, fetch_count >>

\* ------------------------------------------ save_data (lines 118-121) ----
\* open(..., 'w') has truncated the file and json.dump has not finished.
Partial == [state |-> "partial", data |-> << >>]

\* A call of save_data that is over, recorded when it returns or raises.
SaveCall(filename, data, ok) == [filename |-> filename, data |-> data, ok |-> ok]

\* line 120: open(..., 'w') creates or truncates the file; what it held is
\* gone.
SaveOpen(filename) ==
    /\ files' = [files EXCEPT ![filename] = Partial]
    /\ save_calls' = save_calls

\* line 121 and the end of the with block: json.dump has written the whole
\* serialization and the file is closed; save_data returns.
SaveOk(data, filename) ==
    /\ files' = [files EXCEPT ![filename] = Complete(data)]
    /\ save_calls' = Append(save_calls, SaveCall(filename, data, TRUE))

\* save_data raises: open failed and the file is as it was, or the file was
\* opened and the dump did not finish, and the file stays as the dump left
\* it.
SaveFail(data, filename) ==
    /\ files' = files
    /\ save_calls' = Append(save_calls, SaveCall(filename, data, FALSE))

\* ---------------------------------------- scrape_website (scheduler) ----
\* line 143: self.to_visit.append(self.base_url); line 145 creates the pool.
SeedFrontier ==
    /\ sched_pc = "start"
    /\ to_visit' = Append(to_visit, base_url)
    /\ offered_by' = Append(offered_by, NoPage)
    /\ sched_pc' = "loop"
    /\ UNCHANGED << base_url, visited_urls, scraped_data, lock, sched_locals,
                    tasks, disk, fetch_count >>

\* A variant that takes the whole of to_visit as one batch.
BatchSizeAll(max_workers, n) == n

\* line 149: batch_size = min(self.max_workers, len(self.to_visit))
BatchSize(max_workers, n) == Min(max_workers, n)

\* lines 146-149: the while test holds; a new batch is begun.
BeginBatch ==
    /\ sched_pc = "loop"
    /\ to_visit # << >>
    /\ batch' = << >>
    /\ batch_size' = BatchSize(MaxWorkers, Len(to_visit))
    /\ tasks' = << >>
    /\ sched_pc' = "pop"
    /\ UNCHANGED << base_url, frontier, scraped_data, lock, disk, fetch_count >>

\* A variant of the iteration that takes from the right end (deque.pop).
PopRight ==
    /\ sched_pc = "pop"
    /\ Len(batch) < batch_size
    /\ to_visit # << >>
    /\ batch' = Append(batch, to_visit[Len(to_visit)])
    /\ to_visit' = SubSeq(to_visit, 1, Len(to_visit) - 1)
    /\ offered_by' = SubSeq(offered_by, 1, Len(offered_by) - 1)
    /\ UNCHANGED << base_url, visited_urls, scraped_data, lock, sched_pc,
                    batch_size, tasks, disk, fetch_count >>

\* lines 151-153, one iteration of the for loop.
PopLeft ==
    /\ sched_pc = "pop"
    /\ Len(batch) < batch_size
    /\ to_visit # << >>
    /\ batch' = Append(batch, Head(to_visit))
    /\ to_visit' = Tail(to_visit)
    /\ offered_by' = Tail(offered_by)
    /\ UNCHANGED << base_url, visited_urls, scraped_data, lock, sched_pc,
                    batch_size, tasks, disk, fetch_count >>

\* lines 155-156: the for loop is over; an empty batch leaves the while loop.
BatchTaken ==
    /\ sched_pc = "pop"
    /\ Len(batch) = batch_size
    /\ sched_pc' = IF batch = << >> THEN "final" ELSE "submit"
    /\ UNCHANGED << base_url, frontier, scraped_data, lock, sched_locals,
                    tasks, disk, fetch_count >>

\* line 159, one executor.submit of the dict comprehension.
Submit ==
    /\ sched_pc = "submit"
    /\ Len(tasks) < Len(batch)
    /\ tasks' = Append(tasks, NewTask(batch[Len(tasks) + 1]))
    /\ UNCHANGED << base_url, frontier, scraped_data, lock, sched_pc,
                    sched_locals, disk, fetch_count >>

\* line 159 is complete; line 162 starts waiting on the futures.
Submitted ==
    /\ sched_pc = "submit"
    /\ Len(tasks) = Len(batch)
    /\ sched_pc' = "collect"
    /\ UNCHANGED << base_url, frontier, scraped_data, lock, sched_locals,
                    tasks, disk, fetch_count >>

\* A variant that tests the size against the interval with >=.
CheckpointDueAtLeast(n) == n >= CheckpointInterval

\* line 168: len(self.scraped_data) % 50 == 0
CheckpointDue(n) == n % CheckpointInterval = 0

\* A variant of the merge that puts the page in front of scraped_data.
CollectPrepend(t) ==
    /\ sched_pc = "collect"
    /\ tasks[t].pc = "done"
    /\ ~ tasks[t].collected
    /\ ~ tasks[t].raised
    /\ tasks' = [tasks EXCEPT ![t].collected = TRUE]
    /\ IF tasks[t].result # None
       THEN /\ scraped_data' = << tasks[t].result[1] >> \o scraped_data
            /\ sched_pc' = IF CheckpointDue(Len(scraped_data) + 1)
                           THEN "checkpoint" ELSE "collect"
       ELSE /\ scraped_data' = scraped_data
            /\ sched_pc' = "collect"
    /\ UNCHANGED << base_url, frontier, lock, sched_locals, disk, fetch_count >>

\* lines 162-168: as_completed yields a finished future that it has not
\* yielded yet; a page is appended, None is dropped.
Collect(t) ==
    /\ sched_pc = "collect"
    /\ tasks[t].pc = "done"
    /\ ~ tasks[t].collected
    /\ ~ tasks[t].raised
    /\ tasks' = [tasks EXCEPT ![t].collected = TRUE]
    /\ IF tasks[t].result # None
       THEN /\ scraped_data' = Append(scraped_data, tasks[t].result[1])
            /\ sched_pc' = IF CheckpointDue(Len(scraped_data) + 1)
                           THEN "checkpoint" ELSE "collect"
       ELSE /\ scraped_data' = scraped_data
            /\ sched_pc' = "collect"
    /\ UNCHANGED << base_url, frontier, lock, sched_locals, disk, fetch_count >>

\* lines 162-163: as_completed yields a future whose call raised;
\* future.result() raises that exception in the scheduler, nothing catches
\* it and it leaves the loops.
ResultRaises(t) ==
    /\ sched_pc = "collect"
    /\ tasks[t].pc = "done"
    /\ ~ tasks[t].collected
    /\ tasks[t].raised
    /\ tasks' = [tasks EXCEPT ![t].collected = TRUE]
    /\ sched_pc' = "unwind"
    /\ UNCHANGED << base_url, frontier, scraped_data, lock, sched_locals,
                    disk, fetch_count >>

\* line 169, save_data at line 120: the checkpoint file is opened for
\* writing. The workers of the batch that are still running go on.
CheckpointOpen ==
    /\ sched_pc = "checkpoint"
    /\ SaveOpen(BatchFile(Len(scraped_data)))
    /\ sched_pc' = "writing"
    /\ UNCHANGED << base_url, frontier, scraped_data, lock, sched_locals,
                    tasks, fetch_count >>

\* line 169, save_data at line 121: the checkpoint file is written and
\* save_data returns.
CheckpointOk ==
    /\ sched_pc = "writing"
    /\ SaveOk(scraped_data, BatchFile(Len(scraped_data)))
    /\ sched_pc' = "progress"
    /\ UNCHANGED << base_url, frontier, scraped_data, lock, sched_locals,
                    tasks, fetch_count >>

\* line 169 raises, at the open or during the dump: nothing in
\* scrape_website catches it, so the exception leaves the while loop and
\* reaches the end of the with block of line 145.
CheckpointFail ==
    /\ sched_pc \in {"checkpoint", "writing"}
    /\ SaveFail(scraped_data, BatchFile(Len(scraped_data)))
    /\ sched_pc' = "unwind"
    /\ UNCHANGED << base_url, frontier, scraped_data, lock, sched_locals,
                    tasks, fetch_count >>

\* line 170: the progress is printed.
ProgressOk ==
    /\ sched_pc = "progress"
    /\ sched_pc' = "collect"
    /\ UNCHANGED << base_url, frontier, scraped_data, lock, sched_locals,
                    tasks, disk, fetch_count >>

\* line 170: the print raises (stdout cannot be written); the exception
\* leaves the loops as one of save_data does.
ProgressFail ==
    /\ sched_pc = "progress"
    /\ sched_pc' = "unwind"
    /\ UNCHANGED << base_url, frontier, scraped_data, lock, sched_locals,
                    tasks, disk, fetch_count >>

\* ThreadPoolExecutor.__exit__ is shutdown(wait=True): it returns when the
\* submitted calls have run, and then the exception leaves scrape_website.
Unwind ==
    /\ sched_pc = "unwind"
    /\ \A t \in TaskIds : tasks[t].pc = "done"
    /\ sched_pc' = "raised"
    /\ UNCHANGED << base_url, frontier, scraped_data, lock, sched_locals,
                    tasks, disk, fetch_count >>

\* A variant of the end of the collection loop that does not wait for the
\* futures that have not finished.
BatchCollectedEarly ==
    /\ sched_pc = "collect"
    /\ \E t \in TaskIds : tasks[t].collected
    /\ \A t \in TaskIds : tasks[t].pc = "done" => tasks[t].collected
    /\ sched_pc' = "sleep"
    /\ UNCHANGED << base_url, frontier, scraped_data, lock, sched_locals,
                    tasks, disk, fetch_count >>

\* A variant of the end of the collection loop that goes back to the while
\* test without the delay.
BatchCollectedNoSleep ==
    /\ sched_pc = "collect"
    /\ \A t \in TaskIds : tasks[t].collected
    /\ sched_pc' = "loop"
    /\ UNCHANGED << base_url, frontier, scraped_data, lock, sched_locals,
                    tasks, disk, fetch_count >>

\* The for loop of line 162 is over: every future has been yielded.
BatchCollected ==
    /\ sched_pc = "collect"
    /\ \A t \in TaskIds : tasks[t].collected
    /\ sched_pc' = "sleep"
    /\ UNCHANGED << base_url, frontier, scraped_data, lock, sched_locals,
                    tasks, disk, fetch_count >>

\* line 172: time.sleep(self.delay)
Sleep ==
    /\ sched_pc = "sleep"
    /\ sched_pc' = "loop"
    /\ UNCHANGED << base_url, frontier, scraped_data, lock, sched_locals,
                    tasks, disk, fetch_count >>

\* line 146: the while test fails; the with block of line 145 ends.
LeaveLoop ==
    /\ sched_pc = "loop"
    /\ to_visit = << >>
    /\ sched_pc' = "final"
    /\ UNCHANGED << base_url, frontier, scraped_data, lock, sched_locals,
                    tasks, disk, fetch_count >>

\* line 175, save_data at line 120: the file of the complete dataset is
\* opened for writing.
FinalOpen ==
    /\ sched_pc = "final"
    /\ SaveOpen(CompleteFile)
    /\ sched_pc' = "finalwriting"
    /\ UNCHANGED << base_url, frontier, scraped_data, lock, sched_locals,
                    tasks, fetch_count >>

\* line 175, save_data at line 121: the complete dataset is written.
FinalSaveOk ==
    /\ sched_pc = "finalwriting"
    /\ SaveOk(scraped_data, CompleteFile)
    /\ sched_pc' = "export"
    /\ UNCHANGED << base_url, frontier, scraped_data, lock, sched_locals,
                    tasks, fetch_count >>

\* line 175 raises, at the open or during the dump.
FinalSaveFail ==
    /\ sched_pc \in {"final", "finalwriting"}
    /\ SaveFail(scraped_data, CompleteFile)
    /\ sched_pc' = "raised"
    /\ UNCHANGED << base_url, frontier, scraped_data, lock, sched_locals,
                    tasks, fetch_count >>

\* lines 178-185: the spreadsheet is written, the two summary lines are
\* printed and scrape_website returns.
ExportOk ==
    /\ sched_pc = "export"
    /\ sched_pc' = "done"
    /\ UNCHANGED << base_url, frontier, scraped_data, lock, sched_locals,
                    tasks, disk, fetch_count >>

\* One of lines 178-184 raises (the export, or a print).
ExportFail ==
    /\ sched_pc = "export"
    /\ sched_pc' = "raised"
    /\ UNCHANGED << base_url, frontier, scraped_data, lock, sched_locals,
                    tasks, disk, fetch_count >>

Next ==
    \/ SeedFrontier
    \/ BeginBatch
    \/ PopLeft
    \/ BatchTaken
    \/ Submit
    \/ Submitted
    \/ \E t \in TaskIds : Collect(t)
    \/ \E t \in TaskIds : ResultRaises(t)
    \/ CheckpointOpen
    \/ CheckpointOk
    \/ CheckpointFail
    \/ ProgressOk
    \/ ProgressFail
    \/ Unwind
    \/ BatchCollected
    \/ Sleep
    \/ LeaveLoop
    \/ FinalOpen
    \/ FinalSaveOk
    \/ FinalSaveFail
    \/ ExportOk
    \/ ExportFail
    \/ \E t \in TaskIds : StartTask(t)
    \/ \E t \in TaskIds : AcquireVisitLock(t)
    \/ \E t \in TaskIds : SkipVisited(t)
    \/ \E t \in TaskIds : ReturnSkipped(t)
    \/ \E t \in TaskIds : PassVisitedCheck(t)
    \/ \E t \in TaskIds : MarkVisited(t)
    \/ \E t \in TaskIds : AnnounceFail(t)
    \/ \E t \in TaskIds : IssueRequest(t)
    \/ \E t \in TaskIds : FetchOk(t)
    \/ \E t \in TaskIds : FetchFail(t)
    \/ \E t \in TaskIds : AcquireEnqueueLock(t)
    \/ \E t \in TaskIds : TestLink(t)
    \/ \E t \in TaskIds : AppendLink(t)
    \/ \E t \in TaskIds : EndEnqueue(t)
    \/ \E t \in TaskIds : ReturnPage(t)

Spec == Init /\ [][Next]_vars

\* ============================================================ claims ====
Range(q) == { q[i] : i \in 1 .. Len(q) }

\* Tasks of the current batch whose scrape_page call went past the visited
\* check of lines 51-53 (and so requests its page, or has requested it,
\* with or without success).
PastCheck(t) == tasks[t].passed

\* Tasks whose request succeeded: the call offers the links of its page, or
\* has returned the page.
GotPage(t) ==
    \/ tasks[t].pc \in {"acquire2", "enqueue", "append", "return"}
    \/ tasks[t].pc = "done" /\ tasks[t].result # None

\* ------------------------------------------------------------------ C1 --
\* C1: at-most-once fetch. In every reachable state at most one session.get
\* has been issued for each URL, and scraped_data holds no two records with
\* the same url.
C1_AtMostOnceFetch ==
    /\ \A u \in AllUrls : fetch_count[u] <= 1
    /\ \A i, j \in 1 .. Len(scraped_data) :
         scraped_data[i].url = scraped_data[j].url => i = j

\* C1 witness: the same URL sat in to_visit twice and was handed to two
\* workers of one batch. One of them issued the request, offered the links
\* and released the lock, and has not returned yet; the other took the lock
\* meanwhile, found the URL visited and returned None.
C1_Witness ==
    \E t1, t2 \in TaskIds :
        /\ t1 # t2
        /\ tasks[t1].url = tasks[t2].url
        /\ tasks[t1].pc = "return"
        /\ tasks[t2].pc = "done" /\ tasks[t2].result = None
        /\ ~ tasks[t2].passed
        /\ lock = 0
        /\ fetch_count[tasks[t1].url] = 1

\* ------------------------------------------------------------------ C2 --
\* C2 as stated: each distinct URL appears in to_visit at most once.
C2_PendingHasNoDuplicates ==
    \A i, j \in 1 .. Len(to_visit) : to_visit[i] = to_visit[j] => i = j

\* The URLs of the pages whose links have been, or are being, offered: the
\* merged records and the calls of the current batch whose request
\* succeeded.
OfferingPages ==
    { scraped_data[i].url : i \in 1 .. Len(scraped_data) }
        \cup { tasks[t].url : t \in { x \in TaskIds : GotPage(x) } }

\* Every entry of to_visit but the seed's was appended for a link of a page
\* that was fetched, a page other than the entry itself, and no page has two
\* entries for one URL.
C2_OncePerOfferingPage ==
    /\ Len(offered_by) = Len(to_visit)
    /\ \A i \in 1 .. Len(to_visit) :
          IF offered_by[i] = NoPage
          THEN to_visit[i] = base_url
          ELSE offered_by[i] \in OfferingPages /\ offered_by[i] # to_visit[i]
    /\ \A i, j \in 1 .. Len(to_visit) :
          (to_visit[i] = to_visit[j] /\ offered_by[i] = offered_by[j]) => i = j

\* A worker's step that adds to to_visit adds one link of the page of the
\* worker that holds the lock, at the tail, and the link is not visited;
\* whether to_visit holds the link already plays no part.
C2_OfferStep ==
    (sched_pc # "start" /\ Len(to_visit') > Len(to_visit)) =>
        /\ lock \in TaskIds
        /\ to_visit' = Append(to_visit, to_visit'[Len(to_visit')])
        /\ offered_by' = Append(offered_by, tasks[lock].url)
        /\ to_visit'[Len(to_visit')] \notin visited_urls

\* C2 as amended: the enqueue step deduplicates against visited_urls, not
\* against to_visit. A link is appended only when it is not visited, also
\* when it is in to_visit already, and no page's offer appends one URL
\* twice; so a URL occurs in to_visit at most once per page that offered it
\* and once more, for the seed, as the entry that scrape_website appended.
C2_DedupAgainstVisited ==
    /\ [] C2_OncePerOfferingPage
    /\ [][C2_OfferStep]_vars

\* C2 witness: a link was appended although to_visit held it already, offered
\* by another page; it is not visited.
C2_Witness ==
    /\ Len(to_visit) >= 2
    /\ \E i \in 1 .. Len(to_visit) - 1 :
          /\ to_visit[i] = to_visit[Len(to_visit)]
          /\ offered_by[i] # offered_by[Len(to_visit)]
          /\ offered_by[i] # NoPage
    /\ to_visit[Len(to_visit)] \notin visited_urls

\* ------------------------------------------------------------------ C3 --
\* The scheduler holds a batch it has taken from to_visit.
BatchOut ==
    sched_pc \in {"submit", "collect", "checkpoint", "writing", "progress",
                  "unwind", "sleep"}

\* C3 as stated: the URLs of a batch are in visited_urls when the batch is
\* handed out, none of them is in to_visit afterwards, and no URL is handed
\* out twice.
C3_MarkedWhenTaken ==
    BatchOut =>
        /\ \A i \in 1 .. Len(batch) : batch[i] \in visited_urls
        /\ \A i \in 1 .. Len(batch) : batch[i] \notin Range(to_visit)
        /\ \A i, j \in 1 .. Len(batch) : batch[i] = batch[j] => i = j

\* C3 as amended: popleft does not mark; a URL is marked by its worker, in
\* the critical section of lines 50-53. Until then the URL can be appended
\* again and handed out again, but of all the workers handed the same URL
\* only one passes the visited check: a worker past the check has its URL
\* in visited_urls, no request for that URL was issued before its own, and
\* no other worker of the batch is past the check with the same URL.
C3_MarkedByWorker ==
    \A t \in TaskIds :
        /\ PastCheck(t) => tasks[t].url \in visited_urls
        /\ tasks[t].pc \in {"mark", "fetch"} => fetch_count[tasks[t].url] = 0
        /\ PastCheck(t) =>
             \A t2 \in TaskIds \ {t} :
                 tasks[t2].url = tasks[t].url =>
                     ~ PastCheck(t2) /\ tasks[t2].pc # "mark"

\* C3 witness: a URL fetched by an earlier batch was handed out again (no
\* other task of this batch has it); its worker returned None and no second
\* request was issued.
C3_Witness ==
    \E t \in TaskIds :
        /\ tasks[t].pc = "done" /\ tasks[t].result = None
        /\ \E i \in 1 .. Len(scraped_data) : scraped_data[i].url = tasks[t].url
        /\ \A t2 \in TaskIds \ {t} : tasks[t2].url # tasks[t].url
        /\ fetch_count[tasks[t].url] = 1

\* ------------------------------------------------------------------ C4 --
\* C4: whenever a step appends a URL to to_visit, that URL is not in
\* visited_urls at that moment; the seed is appended while visited_urls is
\* empty.
C4_AppendStep ==
    Len(to_visit') > Len(to_visit) =>
        /\ to_visit'[Len(to_visit')] \notin visited_urls
        /\ to_visit'[Len(to_visit')] \notin visited_urls'

C4_NeverEnqueueVisited ==
    /\ [](sched_pc = "start" => visited_urls = {})
    /\ [][C4_AppendStep]_vars

\* C4 witness: a worker holds the lock, has just tested a link of a page
\* whose other links include visited ones, and is about to append it while
\* the worker that will mark that link waits for the lock.
C4_Witness ==
    \E t, t2 \in TaskIds :
        /\ tasks[t].pc = "append"
        /\ lock = t
        /\ tasks[t2].url = tasks[t].link
        /\ tasks[t2].pc = "acquire1"
        /\ tasks[t].link \notin visited_urls

\* ------------------------------------------------------------------ C5 --
\* Calls of scrape_page that were submitted and have not returned.
InFlight == { t \in TaskIds : tasks[t].pc # "done" }

\* C5: never more than max_workers calls in flight, and no batch longer
\* than max_workers.
C5_BoundedConcurrency ==
    /\ Cardinality(InFlight) <= MaxWorkers
    /\ Cardinality(Running) <= MaxWorkers
    /\ Len(batch) <= MaxWorkers
    /\ batch_size <= MaxWorkers

\* C5 witness: max_workers requests are in flight at once while to_visit
\* holds more URLs than the batch could take.
C5_Witness ==
    /\ Cardinality({ t \in TaskIds : tasks[t].pc = "get" }) = MaxWorkers
    /\ to_visit # << >>

\* ------------------------------------------------------------------ C6 --
\* save_data was called for the complete dataset (line 175).
TerminalWriteAttempted ==
    \E i \in 1 .. Len(save_calls) : save_calls[i].filename = CompleteFile

\* scrape_website is over: it returned or an exception left it.
Stopped == sched_pc \in {"done", "raised"}

\* C6 as stated: the terminal write and the export happen only with
\* to_visit empty and no call in flight, and the scheduler never stops
\* while to_visit is non-empty or a worker runs.
C6_StopsOnlyWhenDrained ==
    /\ (sched_pc \in {"final", "finalwriting", "export"}
           \/ TerminalWriteAttempted)
         => to_visit = << >> /\ InFlight = {}
    /\ Stopped => to_visit = << >> /\ InFlight = {}

\* ------------------------------------------------------------------ C7 --
\* The calls of save_data that wrote the checkpoint labelled k.
BatchCalls(k) ==
    { i \in 1 .. Len(save_calls) : save_calls[i].filename = BatchFile(k) }

\* Line 169 is about to run for the size just reached.
WritingCheckpoint(k) ==
    sched_pc \in {"checkpoint", "writing"} /\ k = Len(scraped_data)

\* A step changes a file only by a call of save_data for that file.
C7_WriteStep ==
    \A f \in Filenames :
        files'[f] # files[f] =>
            \/ /\ sched_pc \in {"checkpoint", "writing"}
               /\ f = BatchFile(Len(scraped_data))
               /\ CheckpointDue(Len(scraped_data))
            \/ /\ sched_pc \in {"final", "finalwriting"}
               /\ f = CompleteFile

\* C7 as stated: for every positive multiple k of the checkpoint interval
\* that the size of scraped_data has reached, once line 169 has run for k,
\* the checkpoint labelled k is written and holds exactly the first k
\* records.
C7_EveryCheckpointWritten ==
    \A k \in 1 .. Len(scraped_data) :
        (k % CheckpointInterval = 0 /\ ~ WritingCheckpoint(k)) =>
            files[BatchFile(k)] = Complete(SubSeq(scraped_data, 1, k))

\* For every positive multiple k of the checkpoint interval that the size
\* of scraped_data has reached, save_data was called exactly once for the
\* checkpoint labelled k, with exactly the first k records. When the call
\* returned the file holds them; when it raised the file is as it was
\* before the call or is partially written. save_data is called for no
\* other label.
C7_CheckpointCalls ==
    /\ \A k \in 1 .. Len(scraped_data) :
         k % CheckpointInterval = 0 =>
           IF WritingCheckpoint(k)
           THEN BatchCalls(k) = {}
           ELSE /\ Cardinality(BatchCalls(k)) = 1
                /\ \A i \in BatchCalls(k) :
                     /\ save_calls[i].data = SubSeq(scraped_data, 1, k)
                     /\ IF save_calls[i].ok
                        THEN files[BatchFile(k)]
                               = Complete(SubSeq(scraped_data, 1, k))
                        ELSE files[BatchFile(k)]
                               \in {Partial, Absent, EarlierFiles[BatchFile(k)]}
    /\ \A i \in 1 .. Len(save_calls) :
         save_calls[i].filename.kind = "batch" =>
           /\ save_calls[i].filename.n \in 1 .. Len(scraped_data)
           /\ save_calls[i].filename.n % CheckpointInterval = 0

\* C7 as amended: for every positive multiple k of the checkpoint interval
\* that the size of scraped_data reaches, exactly one write of a checkpoint
\* is attempted, labelled k and given exactly the first k merged records;
\* the file holds them when the write succeeds and is left as it was or
\* partially written when it fails. No checkpoint is written at any other
\* size, and a file of output/ changes only while save_data runs for its
\* name.
C7_Checkpointing ==
    /\ [] C7_CheckpointCalls
    /\ [][C7_WriteStep]_vars

\* C7 witness: the crawl crossed two multiples of the interval and both
\* checkpoints are on disk, each with the records merged up to its label.
C7_Witness ==
    /\ Len(scraped_data) = 2 * CheckpointInterval
    /\ files[BatchFile(CheckpointInterval)]
         = Complete(SubSeq(scraped_data, 1, CheckpointInterval))
    /\ files[BatchFile(2 * CheckpointInterval)] = Complete(scraped_data)
    /\ Len(save_calls) = 2

\* ------------------------------------------------------------------ C8 --
\* C8 as stated: when the request for a URL (or the extraction) fails, the
\* failure stays with that URL and the scheduler still dispatches every
\* other URL of to_visit: it does not stop with URLs waiting because of a
\* call whose request failed.
C8_FetchFailureIsolation ==
    \A t \in TaskIds :
        (/\ tasks[t].pc = "done" /\ tasks[t].passed
         /\ fetch_count[tasks[t].url] = 1
         /\ tasks[t].result = None /\ tasks[t].raised /\ tasks[t].collected)
        => ~ (Stopped /\ to_visit # << >>)

\* ------------------------------------------------------------------ C9 --
\* C9 as stated: a failed checkpoint write does not end the run; after it
\* the scheduler is still in its loop or goes on to the terminal write.
C9_CheckpointFailureNotFatal ==
    (\E i \in 1 .. Len(save_calls) :
        save_calls[i].filename.kind = "batch" /\ ~ save_calls[i].ok)
    => sched_pc \notin {"unwind", "raised"}

\* ----------------------------------------------------------------- C10 --
\* C10 as stated, for finite runs: when nothing more can happen, the
\* frontier is drained, the terminal write was performed and scrape_website
\* is over.
C10_EndsDrainedAndWritten ==
    (~ ENABLED Next) =>
        /\ Stopped
        /\ to_visit = << >>
        /\ TerminalWriteAttempted

\* ----------------------------------------------------------------- C11 --
\* Every page a worker returned has been merged into scraped_data. Then the
\* entries of to_visit, each appended by line 74 for a link of a fetched
\* page, are links of pages whose record is in scraped_data.
AllPagesMerged ==
    \A t \in TaskIds : tasks[t].result # None => tasks[t].collected

\* C11 as stated: when the crawl has ended, every eligible URL linked from
\* a page in scraped_data has been dispatched and is in visited_urls; none
\* is left waiting in to_visit.
C11_AllDiscoveredAttempted ==
    (Stopped /\ AllPagesMerged) =>
        \A i \in 1 .. Len(to_visit) : to_visit[i] \in visited_urls

\* ============================================ the first offer, alone ====
\* The enqueue step of scrape_page for the seed page, started from every
\* seed and every list of anchors of a larger set of URLs: the state of the
\* crawl when scrape_page(base_url) has parsed the page (line 70).

\* The longest list of anchors (soup.find_all('a', href=True)) of the page.
MaxAnchors == 4

OtherSeed   == Url("example.test", <<>>)
OtherPage   == Url("example.test", <<"/a">>)
DocPdfUpper == Url(AwmNetloc, <<"/doc", ".PDF">>)

OfferUrls == {Home, PageA, PageB, DocPdf, DocPdfUpper, ExtX, OtherSeed, OtherPage}

OfferBaseUrls == {Home, OtherSeed}

AnchorLists == UNION { [1 .. n -> OfferUrls] : n \in 0 .. MaxAnchors }

\* The call scrape_page(u) at line 71, with the anchors of its soup.
OfferTask(u, anchors) ==
    [url |-> u, pc |-> "acquire2", passed |-> TRUE,
     todo |-> extract_links(Range(anchors)),
     link |-> u, result |-> None, raised |-> FALSE, collected |-> FALSE,
     anchors |-> anchors]

OfferInit ==
    /\ base_url \in OfferBaseUrls
    /\ visited_urls = {base_url}
    /\ to_visit = << >>
    /\ offered_by = << >>
    /\ scraped_data = << >>
    /\ lock = 0
    /\ sched_pc = "collect"
    /\ batch = << base_url >>
    /\ batch_size = 1
    /\ \E anchors \in AnchorLists : tasks = << OfferTask(base_url, anchors) >>
    /\ files \in OutputDirs
    /\ save_calls = << >>
    /\ fetch_count = [u \in OfferUrls |-> IF u = base_url THEN 1 ELSE 0]

OfferNext ==
    \/ \E t \in TaskIds : AcquireEnqueueLock(t)
    \/ \E t \in TaskIds : TestLink(t)
    \/ \E t \in TaskIds : AppendLink(t)
    \/ \E t \in TaskIds : EndEnqueue(t)
    \/ \E t \in TaskIds : ReturnPage(t)

OfferSpec == OfferInit /\ [][OfferNext]_vars

\* str.lower on the suffix tokens of the modelled URLs.
Lower(token) ==
    CASE token = ".PDF" -> ".pdf"
      [] OTHER -> token

\* The URL's path ends in an excluded extension, in whatever letter case.
HasExcludedExtension(u) ==
    /\ u.path # << >>
    /\ << Lower(u.path[Len(u.path)]) >> \in ExcludedSuffixes

\* ----------------------------------------------------------------- C12 --
\* C12 as stated: a URL whose path ends in an excluded extension, in any
\* letter case, is rejected by is_valid_url and so is never enqueued
\* through link discovery.
C12_ExcludedNeverEnqueued ==
    \A i \in 1 .. Len(to_visit) : ~ HasExcludedExtension(to_visit[i])

\* ------------------------------------------------ C13: domain filter ----
\* The anchors of the seed page that carry no excluded extension, in any
\* letter case.
PlainAnchors ==
    { h \in UNION { Range(tasks[t].anchors) : t \in TaskIds } :
        ~ HasExcludedExtension(h) }

\* C13 as stated: is_valid_url accepts a non-excluded URL exactly when its
\* authority equals the authority of the configured seed.
C13_DomainIsSeedAuthority ==
    \A h \in PlainAnchors : is_valid_url(h) <=> (h.netloc = base_url.netloc)

\* ------------------------------------------------- C14: single offer ----
\* C14 as stated, for the default seed: once the links of the seed page have
\* been offered to the empty frontier, to_visit holds exactly one entry for
\* each distinct anchor that is in the seed's domain, has no excluded
\* extension and is not the page itself, and nothing else.
C14_SingleOffer ==
    \A t \in TaskIds :
        (tasks[t].pc = "done" /\ base_url.netloc = AwmNetloc) =>
            /\ Range(to_visit) =
                   { h \in PlainAnchors : h.netloc = base_url.netloc }
                       \ visited_urls
            /\ Len(to_visit) = Cardinality(Range(to_visit))

\* -------------------------------------------- C15: snapshot atomicity ----
\* C15 as stated: whatever happens to a write of save_data, the file at the
\* target name is absent, or holds a complete earlier serialization, or the
\* complete new one; it never holds a partial serialization.
C15_SnapshotAtomicity ==
    \A f \in Filenames :
        /\ files[f].state # "partial"
        /\ files[f].state = "complete" =>
               \/ files[f] = EarlierFiles[f]
               \/ \E i \in 1 .. Len(save_calls) :
                      /\ save_calls[i].filename = f
                      /\ save_calls[i].ok
                      /\ save_calls[i].data = files[f].data

\* ------------------------------------------------- C16: batch barrier ----
\* The scheduler is between two batches: at the delay, at the while test or
\* taking URLs from to_visit.
BetweenBatches == sched_pc \in {"sleep", "loop", "pop"}

\* A step that removes a URL from to_visit.
C16_RemovalStep ==
    Len(to_visit') < Len(to_visit) =>
        /\ sched_pc = "pop"
        /\ InFlight = {}
        /\ lock = 0
        /\ visited_urls' = visited_urls

\* A step in which a worker appends to to_visit or marks a URL visited.
C16_WorkerWriteStep ==
    (\/ Len(to_visit') > Len(to_visit) /\ sched_pc # "start"
     \/ visited_urls' # visited_urls) =>
        /\ ~ BetweenBatches
        /\ sched_pc' = sched_pc
        /\ \E t \in InFlight : lock = t

\* A step that begins the next batch.
C16_BeginStep ==
    (sched_pc = "loop" /\ sched_pc' = "pop") =>
        \A t \in TaskIds : tasks[t].pc = "done" /\ tasks[t].collected

\* C16: batch barrier. The scheduler begins to take the next batch, and
\* removes URLs from to_visit, only when every scrape_page call of the
\* previous batch has returned; no worker appends to to_visit or marks a
\* URL visited while the scheduler is between two batches.
C16_BatchBarrier ==
    /\ [](BetweenBatches => InFlight = {} /\ lock = 0)
    /\ [][C16_RemovalStep /\ C16_WorkerWriteStep /\ C16_BeginStep]_vars

\* C16 witness: the workers of a full batch have appended links and marked
\* their URLs, and the scheduler is removing the next batch from to_visit.
C16_Witness ==
    /\ sched_pc = "pop"
    /\ Len(batch) = 1
    /\ batch_size = MaxWorkers
    /\ to_visit # << >>
    /\ Cardinality(visited_urls) > MaxWorkers

\* -------------------------------------------------- C17: FIFO batches ----
\* The while test held and a batch is begun: it starts empty and its size is
\* min(max_workers, len(to_visit)).
C17_BeginStep ==
    (sched_pc = "loop" /\ sched_pc' = "pop") =>
        /\ batch' = << >>
        /\ batch_size' = Min(MaxWorkers, Len(to_visit))
        /\ to_visit' = to_visit

\* While the batch is taken, what leaves to_visit leaves at the head and
\* joins the batch at its end; the batch goes to the pool when it has
\* batch_size entries.
C17_TakeStep ==
    sched_pc = "pop" =>
        /\ batch' \o to_visit' = batch \o to_visit
        /\ batch_size' = batch_size
        /\ sched_pc' = "submit" => Len(batch) = batch_size /\ batch' = batch

\* to_visit changes only by losing its head or by gaining an entry at its
\* tail.
C17_QueueStep ==
    to_visit' # to_visit =>
        \/ to_visit # << >> /\ to_visit' = Tail(to_visit)
        \/ \E u \in AllUrls : to_visit' = Append(to_visit, u)

\* The futures are created for the entries of the batch, in order.
C17_DispatchStep ==
    Len(tasks') > Len(tasks) =>
        /\ Len(tasks') = Len(tasks) + 1
        /\ tasks'[Len(tasks')].url = batch[Len(tasks')]
        /\ batch' = batch

\* C17: FIFO batches. Each batch is the first min(max_workers,
\* len(to_visit)) entries of to_visit in queue order, the rest of to_visit
\* keeps its order and new entries join at the tail, so an entry appended
\* earlier is never dispatched in a later batch than one appended after it.
C17_FifoBatches ==
    /\ [][C17_BeginStep /\ C17_TakeStep /\ C17_QueueStep /\ C17_DispatchStep]_vars
    /\ [](sched_pc = "pop" =>
            /\ Len(batch) <= batch_size
            /\ batch_size = Min(MaxWorkers, Len(batch) + Len(to_visit)))
    /\ [](BatchOut => \A t \in TaskIds : tasks[t].url = batch[t])

\* C17 witness: to_visit held more than max_workers entries; the batch has
\* max_workers of them and is going to the pool, the rest stays queued.
C17_Witness ==
    /\ sched_pc = "submit"
    /\ Len(batch) = MaxWorkers
    /\ to_visit # << >>
    /\ Len(tasks) = Len(batch)

\* --------------------------------- C18: scraped_data is append-only ----
\* s is a prefix of q.
IsPrefix(s, q) == Len(s) <= Len(q) /\ SubSeq(q, 1, Len(s)) = s

\* Across every step scraped_data of the earlier state is a prefix of
\* scraped_data of the later state.
C18_PrefixStep == IsPrefix(scraped_data, scraped_data')

\* A record is appended only by the scheduler's merge step (line 165) for a
\* future that returned a page, and it is that page; the step happens
\* before the complete dataset is written.
C18_MergeStep ==
    scraped_data' # scraped_data =>
        /\ sched_pc = "collect"
        /\ ~ TerminalWriteAttempted
        /\ \E t \in TaskIds :
              /\ tasks[t].pc = "done"
              /\ tasks[t].result # None
              /\ ~ tasks[t].collected
              /\ tasks'[t].collected
              /\ scraped_data' = Append(scraped_data, tasks[t].result[1])

\* The write of the complete dataset is handed the whole of scraped_data.
C18_FinalWriteStep ==
    (Len(save_calls') > Len(save_calls)
        /\ sched_pc \in {"final", "finalwriting"}) =>
        /\ save_calls'[Len(save_calls')].filename = CompleteFile
        /\ save_calls'[Len(save_calls')].data = scraped_data
        /\ scraped_data' = scraped_data

\* The futures of a batch are forgotten (line 159 rebinds future_to_url)
\* only when each of them has been yielded to the merge step.
C18_ForgetStep ==
    Len(tasks') < Len(tasks) =>
        \A t \in TaskIds : tasks[t].pc = "done" /\ tasks[t].collected

\* When the complete dataset is about to be written every page returned by
\* a worker has been merged, and scraped_data has one record for each URL
\* whose request succeeded.
C18_CompleteAtFinal ==
    (sched_pc \in {"final", "finalwriting", "export", "done"}
        \/ TerminalWriteAttempted) =>
        /\ \A t \in TaskIds : tasks[t].pc = "done" /\ tasks[t].collected
        /\ \A i, j \in 1 .. Len(scraped_data) :
              scraped_data[i].url = scraped_data[j].url => i = j
        /\ \A i \in 1 .. Len(scraped_data) :
              fetch_count[scraped_data[i].url] = 1
        /\ \A i \in 1 .. Len(save_calls) :
              save_calls[i].filename = CompleteFile =>
                  /\ save_calls[i].data = scraped_data
                  /\ save_calls[i].ok =>
                         files[CompleteFile] = Complete(scraped_data)

\* C18: scraped_data is append-only and complete. Every step extends it at
\* the end or leaves it alone, only the merge step for a future that
\* returned a page appends, nothing is appended once the complete dataset
\* has been written, and the complete dataset written is the whole of
\* scraped_data with one record for each URL fetched successfully.
C18_AppendOnlyAndComplete ==
    /\ [][C18_PrefixStep /\ C18_MergeStep /\ C18_FinalWriteStep
              /\ C18_ForgetStep]_vars
    /\ [] C18_CompleteAtFinal

\* C18 witness: several pages were merged, one request failed and left no
\* record, and the complete dataset on disk is scraped_data.
C18_Witness ==
    /\ sched_pc = "done"
    /\ Len(scraped_data) >= 2
    /\ \E u \in AllUrls : fetch_count[u] = 1
                            /\ \A i \in 1 .. Len(scraped_data) : scraped_data[i].url # u
    /\ files[CompleteFile] = Complete(scraped_data)

\* ------------------------------------------------ C19: politeness delay ----
\* The delay of line 172 starts only from the end of the collection loop,
\* with every call of the batch returned and merged.
C19_DelayStartStep ==
    (sched_pc # "sleep" /\ sched_pc' = "sleep") =>
        /\ sched_pc = "collect"
        /\ InFlight = {}
        /\ \A t \in TaskIds : tasks[t].collected
        /\ tasks # << >>

\* The delay ends at the while test and nowhere else.
C19_DelayEndStep ==
    (sched_pc = "sleep" /\ sched_pc' # "sleep") => sched_pc' = "loop"

\* After the first pass, the while test is reached only from the delay, and
\* a batch is taken from to_visit only from the while test: so one delay,
\* and only one, lies between the end of a batch and the next removal.
C19_LoopStep ==
    /\ (sched_pc # "loop" /\ sched_pc' = "loop") =>
           sched_pc \in {"start", "sleep"}
    /\ (sched_pc # "pop" /\ sched_pc' = "pop") => sched_pc = "loop"
    /\ (sched_pc = "collect" /\ sched_pc' # "collect") =>
           sched_pc' \in {"checkpoint", "sleep", "unwind"}
    /\ (sched_pc \in {"checkpoint", "writing", "progress"}
           /\ sched_pc' # sched_pc) =>
           sched_pc' \in {"writing", "progress", "collect", "unwind"}
    /\ (sched_pc \in {"unwind", "raised"} /\ sched_pc' # sched_pc) =>
           sched_pc' = "raised"
    /\ Len(to_visit') < Len(to_visit) => sched_pc = "pop"

\* C19: politeness delay. Between the return of the last scrape_page call
\* of a batch and the removal of the next batch from to_visit exactly one
\* time.sleep(delay) happens, and it never starts or runs while a call of
\* the batch is in flight.
C19_PolitenessDelay ==
    /\ [][C19_DelayStartStep /\ C19_DelayEndStep /\ C19_LoopStep]_vars
    /\ [](sched_pc = "sleep" => InFlight = {})

\* C19 witness: a batch of max_workers calls has returned and been merged,
\* the scheduler sleeps and to_visit holds the next batch.
C19_Witness ==
    /\ sched_pc = "sleep"
    /\ Len(tasks) = MaxWorkers
    /\ InFlight = {}
    /\ to_visit # << >>

\* ------------------------------------- C20: only the seed is unchecked ----
\* Every URL the crawl holds: queued, taken for a batch, handed to a worker,
\* marked visited or recorded.
HeldUrls ==
    Range(to_visit) \cup Range(batch) \cup visited_urls
        \cup { tasks[t].url : t \in TaskIds }
        \cup { scraped_data[i].url : i \in 1 .. Len(scraped_data) }

\* The first step of scrape_website appends base_url, whatever it is.
C20_SeedStep ==
    sched_pc = "start" => to_visit' = << base_url >> /\ sched_pc' = "loop"

\* Any other step appends only a URL that is_valid_url accepts.
C20_OfferStep ==
    (sched_pc # "start" /\ Len(to_visit') > Len(to_visit)) =>
        is_valid_url(to_visit'[Len(to_visit')])

\* The call of scrape_page for base_url is never turned away, whether or not
\* is_valid_url accepts base_url: once it has left the visited check it is
\* past it, and then the request for base_url is about to be issued or has
\* been issued, unless the print of line 55 raised.
C20_SeedCall ==
    \A t \in TaskIds :
        tasks[t].url = base_url =>
            /\ tasks[t].pc \notin {"queued", "acquire1", "check", "mark"}
                  => PastCheck(t)
            /\ PastCheck(t) =>
                  \/ tasks[t].pc = "fetch"
                  \/ fetch_count[base_url] = 1
                  \/ tasks[t].pc = "done" /\ tasks[t].result = None

\* C20: in every reachable state a URL in to_visit, in visited_urls or in
\* scraped_data is base_url or is accepted by is_valid_url; base_url itself
\* is appended to to_visit and requested without being tested.
C20_OnlySeedUnchecked ==
    /\ [](\A u \in HeldUrls : u = base_url \/ is_valid_url(u))
    /\ [](sched_pc # "start" => base_url \in HeldUrls)
    /\ [] C20_SeedCall
    /\ [][C20_SeedStep /\ C20_OfferStep]_vars

\* C20 witness: a seed that is_valid_url does not accept was fetched and
\* recorded, and an accepted link of its page was fetched after it.
C20_Witness ==
    /\ ~ is_valid_url(base_url)
    /\ Len(scraped_data) = 2
    /\ scraped_data[1].url = base_url
    /\ is_valid_url(scraped_data[2].url)
    /\ fetch_count[base_url] = 1
====
